---- MODULE Spec2Model ----
(***************************************************************************)
(* acdb: a key-value store with four drivers (MemDriver, DocDriver,        *)
(* LruDriver, MapDriver) behind the Driver interface, and Emerge, the      *)
(* mutex-guarded client that wraps one driver.                             *)
(*                                                                         *)
(* Strings (keys, paths) are sequences of one-character strings, values    *)
(* are sequences of bytes.  The file system under the root is a function   *)
(* from cleaned paths to file contents plus the set of directories.        *)
(***************************************************************************)
EXTENDS Integers, Sequences, FiniteSets, TLC

(* ------------------------------ bounds -------------------------------- *)

\* capacity given to lru.New (1024 in NewMapDriver), scaled down
LruSize == 2
\* longest value written
MaxLen == 1
\* goroutines calling the guarded client at the same time
NumCallers == 2
\* the one byte values are made of
Bytes == {7}

Values == UNION {[1..n -> Bytes] : n \in 0..MaxLen}

\* the root directory handed to NewDocDriver / NewMapDriver
Root == <<"r">>
\* a directory that may already exist under the root when the store is opened
PreDir == <<"r", "/", "a">>

Ka == <<"a">>
Kb == <<"b">>
Ksa == <<"/", "a">>
Kab == <<"a", "/", "b">>
Keys == {Ka, Kb, Ksa, Kab}

Kinds == {"mem", "doc", "lru", "map"}

Callers == 1..NumCallers
\* the keys the concurrent callers use
EKeys == {Ka, Ksa, Kb}

VARIABLES kind, data, cache, files, dirs, op, prev, touched, evicted, watch, held,
          durable, mutex, pc, call, loc, snap

vars == <<kind, data, cache, files, dirs, op, prev, touched, evicted, watch, held,
          durable, mutex, pc, call, loc, snap>>

(* ------------------------------ path.Join ----------------------------- *)

RECURSIVE Split(_)
\* the elements of s between the "/" separators
Split(s) ==
  IF s = <<>> THEN << <<>> >>
  ELSE LET rest == Split(Tail(s))
       IN IF Head(s) = "/" THEN << <<>> >> \o rest
          ELSE << <<Head(s)>> \o Head(rest) >> \o Tail(rest)

RECURSIVE CleanSegs(_, _, _)
\* path.Clean on the elements: drop empty and "." elements, resolve ".."
CleanSegs(segs, rooted, out) ==
  IF segs = <<>> THEN out
  ELSE LET e == Head(segs)
           next == IF e = <<>> \/ e = <<".">> THEN out
                   ELSE IF e = <<".", ".">>
                        THEN IF out # <<>> /\ out[Len(out)] # <<".", ".">>
                             THEN SubSeq(out, 1, Len(out) - 1)
                             ELSE IF rooted THEN out ELSE Append(out, e)
                        ELSE Append(out, e)
       IN CleanSegs(Tail(segs), rooted, next)

RECURSIVE JoinSegs(_)
JoinSegs(segs) ==
  IF segs = <<>> THEN <<>>
  ELSE IF Len(segs) = 1 THEN segs[1]
       ELSE segs[1] \o <<"/">> \o JoinSegs(Tail(segs))

Clean(s) ==
  LET rooted == s # <<>> /\ s[1] = "/"
      body == JoinSegs(CleanSegs(Split(s), rooted, <<>>))
  IN IF rooted THEN <<"/">> \o body
     ELSE IF body = <<>> THEN <<".">> ELSE body

\* path.Join(d.root, k)
PathJoin(root, k) == Clean(root \o <<"/">> \o k)

\* the file of every key, path.Join(d.root, k)
PathTable == [k \in Keys |-> PathJoin(Root, k)]
PathOf(k) == PathTable[k]

\* the directory a cleaned path lives in (path.Dir)
DirOf(p) ==
  LET idx == {i \in 1..Len(p) : p[i] = "/"}
  IN IF idx = {} THEN <<".">>
     ELSE LET m == CHOOSE i \in idx : \A j \in idx : j <= i
          IN IF m = 1 THEN <<"/">> ELSE SubSeq(p, 1, m - 1)

RECURSIVE Ancestors(_)
Ancestors(p) == IF DirOf(p) = p \/ Len(DirOf(p)) >= Len(p) THEN {p} ELSE {p} \cup Ancestors(DirOf(p))

DirTable == [p \in UNION {Ancestors(PathOf(k)) : k \in Keys} |-> DirOf(p)]
Dir(p) == DirTable[p]

(* --------------------------- the file system -------------------------- *)

IsDir(fs, p) == p = <<".">> \/ p = <<"/">> \/ p \in fs.dirs
IsFile(fs, p) == p \in DOMAIN fs.files

RECURSIVE ParentErr(_, _)
\* the error of walking to the directory of p: "nil" when it is a directory
ParentErr(fs, p) ==
  LET d == Dir(p)
  IN IF IsDir(fs, d) THEN "nil"
     ELSE IF IsFile(fs, d) THEN "ENOTDIR"
     ELSE LET e == ParentErr(fs, d)
          IN IF e # "nil" THEN e ELSE "ENOENT"

Restrict(f, S) == [x \in S |-> f[x]]
Put(f, x, y) == [z \in DOMAIN f \cup {x} |-> IF z = x THEN y ELSE f[z]]

\* os.ReadFile
ReadFile(fs, p) ==
  LET e == ParentErr(fs, p)
  IN IF e # "nil" THEN [err |-> e, val |-> <<>>]
     ELSE IF IsDir(fs, p) THEN [err |-> "EISDIR", val |-> <<>>]
     ELSE IF IsFile(fs, p) THEN [err |-> "nil", val |-> fs.files[p]]
     ELSE [err |-> "ENOENT", val |-> <<>>]

\* os.WriteFile: open with O_WRONLY|O_CREATE|O_TRUNC, write, close.  The open
\* may be refused (EACCES), the write may stop short (ENOSPC) after the
\* truncation.
WriteFile(fs, p, v) ==
  LET e == ParentErr(fs, p)
  IN IF e # "nil" THEN {[fs |-> fs, err |-> e]}
     ELSE IF IsDir(fs, p) THEN {[fs |-> fs, err |-> "EISDIR"]}
     ELSE {[fs |-> [fs EXCEPT !.files = Put(fs.files, p, v)], err |-> "nil"]}
          \cup {[fs |-> fs, err |-> "EACCES"]}
          \cup {[fs |-> [fs EXCEPT !.files = Put(fs.files, p, SubSeq(v, 1, n))],
                 err |-> "ENOSPC"] : n \in 0..(Len(v) - 1)}

\* os.Remove: unlink, then rmdir
Remove(fs, p) ==
  LET e == ParentErr(fs, p)
  IN IF e # "nil" THEN {[fs |-> fs, err |-> e]}
     ELSE IF IsFile(fs, p)
          THEN {[fs |-> [fs EXCEPT !.files = Restrict(fs.files, DOMAIN fs.files \ {p})],
                 err |-> "nil"],
                [fs |-> fs, err |-> "EACCES"]}
     ELSE IF p \in fs.dirs
          THEN IF \E q \in DOMAIN fs.files \cup fs.dirs : Dir(q) = p
               THEN {[fs |-> fs, err |-> "ENOTEMPTY"]}
               ELSE {[fs |-> [fs EXCEPT !.dirs = fs.dirs \ {p}], err |-> "nil"]}
     ELSE {[fs |-> fs, err |-> "ENOENT"]}

(* ------------------- lru.Cache (github.com/mohanson/lru) -------------- *)
\* The cache is the sequence of its entries, most recently used first.

Resident(c) == {c[i].k : i \in 1..Len(c)}
IndexOf(c, k) == CHOOSE i \in 1..Len(c) : c[i].k = k
ValueOf(c, k) == c[IndexOf(c, k)].v
Without(c, k) == SelectSeq(c, LAMBDA e : e.k # k)

\* Cache.Get: a hit moves the entry to the front
LruCacheGet(c, k) ==
  IF k \in Resident(c)
  THEN [c |-> <<c[IndexOf(c, k)]>> \o Without(c, k), ok |-> TRUE, v |-> ValueOf(c, k)]
  ELSE [c |-> c, ok |-> FALSE, v |-> <<>>]

\* Cache.Set: replace or insert at the front, then drop the entries beyond size
LruCacheSet(c, size, k, v) ==
  LET ins == <<[k |-> k, v |-> v]>> \o Without(c, k)
  IN IF Len(ins) > size THEN SubSeq(ins, 1, size) ELSE ins

\* Cache.Del
LruCacheDel(c, k) == Without(c, k)

(* ------------------------------ the drivers --------------------------- *)
\* A driver state is [data, cache, files, dirs]; every operation yields the
\* set of its possible outcomes [st, err, val].

ErrNotExist == "ENOENT"

Out(st, err, val) == [st |-> st, err |-> err, val |-> val]
FsOf(st) == [files |-> st.files, dirs |-> st.dirs]
WithFs(st, fs) == [st EXCEPT !.files = fs.files, !.dirs = fs.dirs]

MemGet(st, k) ==
  IF k \in DOMAIN st.data THEN {Out(st, "nil", st.data[k])}
  ELSE {Out(st, ErrNotExist, <<>>)}

MemSet(st, k, v) == {Out([st EXCEPT !.data = Put(st.data, k, v)], "nil", <<>>)}

MemDel(st, k) ==
  {Out([st EXCEPT !.data = Restrict(st.data, DOMAIN st.data \ {k})], "nil", <<>>)}

DocGet(st, k) ==
  LET r == ReadFile(FsOf(st), PathOf(k))
  IN {Out(st, r.err, r.val)}

DocSet(st, k, v) ==
  {Out(WithFs(st, r.fs), r.err, <<>>) : r \in WriteFile(FsOf(st), PathOf(k), v)}

DocDel(st, k) ==
  {Out(WithFs(st, r.fs), r.err, <<>>) : r \in Remove(FsOf(st), PathOf(k))}

\* LruDriver.Get that reads the entry without refreshing its recency
LruGetPeek(st, k) ==
  LET r == LruCacheGet(st.cache, k)
  IN IF r.ok THEN {Out(st, "nil", r.v)}
     ELSE {Out(st, ErrNotExist, <<>>)}

LruGet(st, k) ==
  LET r == LruCacheGet(st.cache, k)
  IN IF r.ok THEN {Out([st EXCEPT !.cache = r.c], "nil", r.v)}
     ELSE {Out(st, ErrNotExist, <<>>)}

\* LruDriver.Set on a cache constructed one entry too large
LruSetOversize(st, k, v) ==
  {Out([st EXCEPT !.cache = LruCacheSet(st.cache, LruSize + 1, k, v)], "nil", <<>>)}

LruSet(st, k, v) ==
  {Out([st EXCEPT !.cache = LruCacheSet(st.cache, LruSize, k, v)], "nil", <<>>)}

LruDel(st, k) == {Out([st EXCEPT !.cache = LruCacheDel(st.cache, k)], "nil", <<>>)}

\* MapDriver.Get: cache, then backend, then populate the cache
MapGetFill(st, k, buf) == {Out(r.st, r.err, buf) : r \in LruSet(st, k, buf)}

\* a read miss that populates the cache before looking at the backend error
MapGetMissCacheError(st, k) ==
  UNION {{Out(f.st, r.err, r.val) : f \in LruSet(r.st, k, r.val)} : r \in DocGet(st, k)}

MapGetMiss(st, k) ==
  UNION {IF r.err # "nil" THEN {Out(r.st, r.err, <<>>)}
         ELSE MapGetFill(r.st, k, r.val) : r \in DocGet(st, k)}

MapGet(st, k) ==
  UNION {IF r.err = "nil" THEN {r} ELSE MapGetMiss(r.st, k) : r \in LruGet(st, k)}

\* MapDriver.Set that writes the backend first and the cache on success
MapSetBackendFirst(st, k, v) ==
  UNION {IF r.err # "nil" THEN {r} ELSE LruSet(r.st, k, v) : r \in DocSet(st, k, v)}

\* MapDriver.Set that forgets the cache
MapSetBackendOnly(st, k, v) == DocSet(st, k, v)

\* MapDriver.Set: cache first, then backend
MapSet(st, k, v) ==
  UNION {IF r.err # "nil" THEN {r} ELSE DocSet(r.st, k, v) : r \in LruSet(st, k, v)}

\* MapDriver.Del that forgets the cache
MapDelBackendOnly(st, k) == DocDel(st, k)

\* MapDriver.Del: cache first, then backend
MapDel(st, k) ==
  UNION {IF r.err # "nil" THEN {r} ELSE DocDel(r.st, k) : r \in LruDel(st, k)}

DriverGet(kd, st, k) ==
  CASE kd = "mem" -> MemGet(st, k)
    [] kd = "doc" -> DocGet(st, k)
    [] kd = "lru" -> LruGet(st, k)
    [] kd = "map" -> MapGet(st, k)

DriverSet(kd, st, k, v) ==
  CASE kd = "mem" -> MemSet(st, k, v)
    [] kd = "doc" -> DocSet(st, k, v)
    [] kd = "lru" -> LruSet(st, k, v)
    [] kd = "map" -> MapSet(st, k, v)

DriverDel(kd, st, k) ==
  CASE kd = "mem" -> MemDel(st, k)
    [] kd = "doc" -> DocDel(st, k)
    [] kd = "lru" -> LruDel(st, k)
    [] kd = "map" -> MapDel(st, k)

(* ------------------------- one caller at a time ----------------------- *)

State == [data |-> data, cache |-> cache, files |-> files, dirs |-> dirs]

Empty == [x \in {} |-> <<>>]
NoCall == [name |-> "none", k |-> <<>>, v |-> <<>>]
NoLoc == [buf |-> <<>>, err |-> "nil"]
NoSnap == <<>>
NoPrev == [name |-> "none", v |-> <<>>, err |-> "nil"]
NoOp == [name |-> "New", k |-> <<>>, v |-> <<>>, err |-> "nil", val |-> <<>>]

\* the keys in the order of their last touch, oldest first, kept for the
\* keys resident after the step
Touch(t, k, c) == SelectSeq(SelectSeq(t, LAMBDA x : x # k) \o <<k>>, LAMBDA x : x \in Resident(c))
Forget(t, c) == SelectSeq(t, LAMBDA x : x \in Resident(c))

\* NewMemDriver / NewDocDriver / NewLruDriver / NewMapDriver on a root that
\* holds no file yet and perhaps a directory
Init ==
  /\ kind \in Kinds
  /\ data = Empty
  /\ cache = <<>>
  /\ files = Empty
  /\ dirs \in {{Root}, {Root, PreDir}}
  /\ op = NoOp
  /\ prev = NoPrev
  /\ touched = <<>>
  /\ evicted = {}
  /\ watch = <<>>
  /\ held = <<>>
  /\ durable = <<>>
  /\ mutex = 0
  /\ pc = [p \in Callers |-> "off"]
  /\ call = [p \in Callers |-> NoCall]
  /\ loc = [p \in Callers |-> NoLoc]
  /\ snap = [p \in Callers |-> NoSnap]

Install(st) ==
  /\ data' = st.data
  /\ cache' = st.cache
  /\ files' = st.files
  /\ dirs' = st.dirs

\* the entries the step pushed out of the cache
Pushed(c, k) == (Resident(cache) \ Resident(c)) \ {k}

Get(k) ==
  \E r \in DriverGet(kind, State, k) :
    /\ Install(r.st)
    /\ op' = [name |-> "Get", k |-> k, v |-> <<>>, err |-> r.err, val |-> r.val]
    /\ prev' = IF op.k = k /\ op.name \in {"Set", "Del"}
               THEN [name |-> op.name, v |-> op.v, err |-> op.err]
               ELSE NoPrev
    /\ touched' = IF r.err = "nil" THEN Touch(touched, k, r.st.cache)
                  ELSE Forget(touched, r.st.cache)
    /\ evicted' = Pushed(r.st.cache, k)
    /\ UNCHANGED <<kind, watch, held, durable, mutex, pc, call, loc, snap>>

Set(k, v) ==
  \E r \in DriverSet(kind, State, k, v) :
    /\ Install(r.st)
    /\ op' = [name |-> "Set", k |-> k, v |-> v, err |-> r.err, val |-> <<>>]
    /\ prev' = NoPrev
    /\ touched' = Touch(touched, k, r.st.cache)
    /\ evicted' = Pushed(r.st.cache, k)
    /\ held' = IF k = watch /\ r.err = "nil" THEN <<v>> ELSE held
    /\ durable' = IF k = watch /\ r.err = "nil" THEN <<v>> ELSE durable
    /\ UNCHANGED <<kind, watch, mutex, pc, call, loc, snap>>

Del(k) ==
  \E r \in DriverDel(kind, State, k) :
    /\ Install(r.st)
    /\ op' = [name |-> "Del", k |-> k, v |-> <<>>, err |-> r.err, val |-> <<>>]
    /\ prev' = NoPrev
    /\ touched' = Forget(SelectSeq(touched, LAMBDA x : x # k), r.st.cache)
    /\ evicted' = {}
    /\ held' = IF k = watch THEN <<>> ELSE held
    /\ durable' = IF k = watch /\ r.err = "nil" THEN <<>> ELSE durable
    /\ UNCHANGED <<kind, watch, mutex, pc, call, loc, snap>>

\* the process ends and a new driver is constructed on the same root
Restart ==
  /\ data' = Empty
  /\ cache' = <<>>
  /\ op' = NoOp
  /\ prev' = NoPrev
  /\ touched' = <<>>
  /\ evicted' = {}
  /\ held' = <<>>
  /\ UNCHANGED <<kind, files, dirs, watch, durable, mutex, pc, call, loc, snap>>

Next ==
  \/ \E k \in Keys : Get(k)
  \/ \E k \in Keys, v \in Values : Set(k, v)
  \/ \E k \in Keys : Del(k)
  \/ Restart

Spec == Init /\ [][Next]_vars

\* The Layered Store with one key watched: held is <<v>> once Set(watch, v)
\* returned nil, and <<>> again after a Del of the key or a restart; durable
\* is <<v>> once Set(watch, v) returned nil, and <<>> again after a Del of the
\* key that returned nil.
InitWatch ==
  /\ kind = "map"
  /\ data = Empty
  /\ cache = <<>>
  /\ files = Empty
  /\ dirs \in {{Root}, {Root, PreDir}}
  /\ op = NoOp
  /\ prev = NoPrev
  /\ touched = <<>>
  /\ evicted = {}
  /\ watch \in Keys
  /\ held = <<>>
  /\ durable = <<>>
  /\ mutex = 0
  /\ pc = [p \in Callers |-> "off"]
  /\ call = [p \in Callers |-> NoCall]
  /\ loc = [p \in Callers |-> NoLoc]
  /\ snap = [p \in Callers |-> NoSnap]

SpecWatch == InitWatch /\ [][Next]_vars

\* The Layered Store opened on a root that holds nothing yet.
InitLayered == Init /\ kind = "map" /\ dirs = {Root}

SpecLayered == InitLayered /\ [][Next]_vars

(* ------------------- properties of the drivers (Spec) ----------------- *)

\* C1: through the Layered Store, a Set(k, v) that returned nil followed
\* immediately by Get(k) makes Get return exactly v and nil, for every value
\* including the empty one.
ReadYourWrites ==
  (kind = "map" /\ op.name = "Get" /\ prev.name = "Set" /\ prev.err = "nil")
    => (op.err = "nil" /\ op.val = prev.v)

ReadYourWritesWitness ==
  /\ kind = "map"
  /\ op.name = "Get" /\ prev.name = "Set" /\ prev.err = "nil"
  /\ prev.v # <<>> /\ op.val = prev.v

\* C2 as stated: through the Layered Store, Del(k) followed immediately by
\* Get(k) makes Get fail with the not-found error, whatever Del returned.
DelThenGetAlways ==
  (kind = "map" /\ op.name = "Get" /\ prev.name = "Del") => op.err = ErrNotExist

\* C2 amended: through the Layered Store, a Del(k) that returned nil or the
\* not-found error, followed immediately by Get(k), makes Get fail with the
\* not-found error.
DelThenGet ==
  (kind = "map" /\ op.name = "Get" /\ prev.name = "Del"
     /\ prev.err \in {"nil", ErrNotExist})
    => op.err = ErrNotExist

DelThenGetWitness ==
  /\ kind = "map"
  /\ op.name = "Get" /\ prev.name = "Del" /\ prev.err = "nil"
  /\ op.err = ErrNotExist
  /\ cache # <<>>

\* C3: the cache never holds more entries than the capacity it was
\* constructed with, whichever of Get, Set and Del ran, read-through
\* population included.
CapacityInvariant == Len(cache) <= LruSize

CapacityWitness ==
  /\ kind = "map"
  /\ op.name = "Get" /\ op.err = "nil"
  /\ evicted # {}
  /\ Len(cache) = LruSize

\* C4: when the cache is full and Set inserts a key that is not resident,
\* exactly the resident key touched longest ago leaves the cache, every other
\* resident stays with its value, and the new key is the most recently used.
EvictionVictim ==
  [][(kind \in {"lru", "map"} /\ op'.name = "Set" /\ Len(cache) = LruSize
        /\ op'.k \notin Resident(cache))
       => /\ touched # <<>>
          /\ Resident(cache') = (Resident(cache) \ {touched[1]}) \cup {op'.k}
          /\ Cardinality(Resident(cache) \ Resident(cache')) = 1
          /\ \A j \in Resident(cache) \ {touched[1]} :
               ValueOf(cache', j) = ValueOf(cache, j)
          /\ cache'[1] = [k |-> op'.k, v |-> op'.v]]_vars

EvictionWitness ==
  /\ kind = "lru"
  /\ op.name = "Set"
  /\ Cardinality(evicted) = 1
  /\ Len(cache) = LruSize
  /\ cache[1].k = op.k
  /\ touched[Len(touched)] = op.k

\* C5 as stated, for the watched key: once it was Set with success and then
\* pushed out of the cache without being deleted, Get succeeds with the last
\* value set, and the key is then resident as the most recently used, the
\* least recently used resident having left if the cache was full.
ReadThroughAfterEviction ==
  [][(held # <<>> /\ watch \notin Resident(cache)
        /\ op'.name = "Get" /\ op'.k = watch)
       => /\ op'.err = "nil"
          /\ op'.val = held[1]
          /\ cache' # <<>>
          /\ cache'[1].k = watch
          /\ Len(cache) = LruSize =>
               Resident(cache') = (Resident(cache) \ {cache[Len(cache)].k}) \cup {watch}]_vars

\* whether the driver holds something under the key
KeyExists(kd, st, k) ==
  CASE kd = "mem" -> k \in DOMAIN st.data
    [] kd = "lru" -> k \in Resident(st.cache)
    [] kd = "doc" -> IsFile(FsOf(st), PathOf(k)) \/ PathOf(k) \in st.dirs
    [] kd = "map" -> \/ k \in Resident(st.cache)
                     \/ IsFile(FsOf(st), PathOf(k)) \/ PathOf(k) \in st.dirs

\* C9 as stated: through the Layered Store, Del(k) of a key with nothing at
\* its path in the backend returns the not-found error, creates no cache
\* entry for k and leaves every other cache entry and the order unchanged.
DelMissing ==
  [][(kind = "map" /\ op'.name = "Del"
        /\ ~ IsFile(FsOf(State), PathOf(op'.k)) /\ PathOf(op'.k) \notin dirs)
       => /\ op'.err = ErrNotExist
          /\ op'.k \notin Resident(cache')
          /\ cache' = Without(cache, op'.k)]_vars

\* C10 as stated: for every driver, Del(k) and Get(k) of a key that does not
\* exist in the driver return ErrNotExist.
MissingKeyErrNotExist ==
  [][(op'.name \in {"Get", "Del"} /\ ~ KeyExists(kind, State, op'.k))
       => op'.err = ErrNotExist]_vars

\* what Get(k) returns from a driver state
GetResult(kd, st, k) == {[err |-> r.err, val |-> r.val] : r \in DriverGet(kd, st, k)}

\* C11 as stated: on the Storage Backend and on the Layered Store over it,
\* Set(k1, v) and Del(k1) never change what Get(k2) returns for a key k2
\* other than k1.
KeysOneToOne ==
  [][(kind \in {"doc", "map"} /\ op'.name \in {"Set", "Del"})
       => \A k2 \in Keys \ {op'.k} :
            GetResult(kind, State', k2) = GetResult(kind, State, k2)]_vars

\* C12 as stated: Set on the Storage Backend never fails with the not-found
\* error; for a key whose parent directories do not exist under the root it
\* creates them, returns nil, and Get(k) then returns v.
SetCreatesDirs ==
  [][(kind = "doc" /\ op'.name = "Set")
       => /\ op'.err # ErrNotExist
          /\ ParentErr(FsOf(State), PathOf(op'.k)) = "ENOENT"
               => /\ op'.err = "nil"
                  /\ Dir(PathOf(op'.k)) \in dirs'
                  /\ GetResult(kind, State', op'.k) = {[err |-> "nil", val |-> op'.v]}]_vars

\* C13 as stated, for the watched key: after a restart of the Layered Store,
\* Get returns the value of the last Set of the key whose backend write
\* succeeded and that no successful Del of the key followed, and fails with
\* the not-found error when there is none.
DurableAcrossRestart ==
  [][(kind = "map" /\ watch \in Keys /\ op'.name = "New")
       => GetResult(kind, State', watch) =
            IF durable = <<>> THEN {[err |-> ErrNotExist, val |-> <<>>]}
            ELSE {[err |-> "nil", val |-> durable[1]]}]_vars

IsPrefix(a, b) == Len(a) <= Len(b) /\ SubSeq(b, 1, Len(a)) = a

\* the step is a Set of the Layered Store that failed at the backend write
FailedSet == op'.name = "Set" /\ op'.err # "nil"

\* the failed Set returns the error of the backend write and leaves k -> v in
\* the cache as the most recently used entry
FailedSetCached ==
  /\ op'.err \in {r.err : r \in WriteFile(FsOf(State), PathOf(op'.k), op'.v)}
  /\ cache' # <<>>
  /\ cache'[1] = [k |-> op'.k, v |-> op'.v]

\* the entry e of the cache is not in the cache after the step
EntryChanged(e) == \A j \in 1..Len(cache') : cache'[j] # e

\* the step pushes k out of the full cache by inserting another key
Evicts(k) ==
  /\ op'.name \in {"Set", "Get"}
  /\ op'.k # k
  /\ op'.k \notin Resident(cache)
  /\ Len(cache) = LruSize
  /\ k \notin Resident(cache')

\* Get of a resident key returns the cached value
HitServed ==
  \A i \in 1..Len(cache) :
    cache[i].k = op'.k => (op'.err = "nil" /\ op'.val = cache[i].v)

\* C15 as stated: a Set of the Layered Store that fails at the backend write
\* returns the backend error, leaves k -> v in the cache as most recently
\* used and the backend as it was; Get(k) returns the cached v until a later
\* successful Set(k, .), a Del(k) or the eviction of k.
FailedSetLeavesBackend ==
  [][(kind = "map" /\ op'.name # "New") =>
       /\ FailedSet => (FailedSetCached /\ files' = files /\ dirs' = dirs)
       /\ op'.name = "Get" => HitServed
       /\ \A i \in 1..Len(cache) :
            EntryChanged(cache[i]) =>
              \/ op'.name = "Set" /\ op'.k = cache[i].k /\ op'.err = "nil"
              \/ op'.name = "Del" /\ op'.k = cache[i].k
              \/ Evicts(cache[i].k)]_vars

\* C15 amended: a Set of the Layered Store that fails at the backend write
\* returns the backend error and leaves k -> v in the cache as most recently
\* used; the backend object of k is what it was before or, when the write
\* stopped short, an initial part of v, and nothing else in the backend
\* changes; Get(k) returns the cached v until a later Set(k, .), successful
\* or not, a Del(k) or the eviction of k.
FailedSetDivergence ==
  [][(kind = "map" /\ op'.name # "New") =>
       /\ FailedSet =>
            /\ FailedSetCached
            /\ dirs' = dirs
            /\ \/ files' = files
               \/ /\ DOMAIN files' = DOMAIN files \cup {PathOf(op'.k)}
                  /\ IsPrefix(files'[PathOf(op'.k)], op'.v)
                  /\ \A q \in DOMAIN files \ {PathOf(op'.k)} : files'[q] = files[q]
       /\ op'.name = "Get" => HitServed
       /\ \A i \in 1..Len(cache) :
            EntryChanged(cache[i]) =>
              \/ op'.name = "Set" /\ op'.k = cache[i].k
              \/ op'.name = "Del" /\ op'.k = cache[i].k
              \/ Evicts(cache[i].k)]_vars

FailedSetWitness ==
  /\ kind = "map"
  /\ op.name = "Get" /\ prev.name = "Set" /\ prev.err = "ENOSPC"
  /\ op.err = "nil" /\ op.val = prev.v
  /\ files[PathOf(op.k)] # op.val

\* C17: Get(k) of the Layered Store on a cache hit returns the cached value,
\* whatever the backend holds, and changes neither the backend nor the set
\* of resident keys; on a miss where the backend Get fails it returns the
\* backend error and leaves the cache, entries and order, as it was.
GetHitMissFrame ==
  [][(kind = "map" /\ op'.name = "Get") =>
       IF \E i \in 1..Len(cache) : cache[i].k = op'.k
       THEN /\ HitServed
            /\ files' = files /\ dirs' = dirs
            /\ Resident(cache') = Resident(cache)
       ELSE LET r == ReadFile(FsOf(State), PathOf(op'.k))
            IN r.err # "nil" =>
                 /\ op'.err = r.err
                 /\ cache' = cache
                 /\ files' = files /\ dirs' = dirs]_vars

GetHitWitness ==
  /\ kind = "map"
  /\ op.name = "Get" /\ op.err = "nil"
  /\ PathOf(op.k) \notin DOMAIN files
  /\ Len(cache) = LruSize
  /\ cache[1].k = op.k

(* -------------------- Emerge: callers under the mutex ----------------- *)
\* Every caller is a goroutine that makes one call on the client returned by
\* Map(root); the steps inside the lock are the calls MapDriver makes on its
\* two inner drivers.

Calls ==
  {[name |-> "Get", k |-> k, v |-> <<>>] : k \in EKeys}
  \cup {[name |-> "Set", k |-> k, v |-> v] : k \in EKeys, v \in Values}
  \cup {[name |-> "Del", k |-> k, v |-> <<>>] : k \in EKeys}

\* a Lock that does not wait for the mutex to be free
MutexLockNoWait(p) == mutex' = p

\* sync.Mutex.Lock; the mutex holds its owner, 0 when it is free
MutexLock(p) == mutex = 0 /\ mutex' = p

\* an Unlock that is reached only when the driver returned no error
MutexUnlockOnSuccess(p) == mutex' = IF loc[p].err = "nil" THEN 0 ELSE mutex

\* sync.Mutex.Unlock
MutexUnlock(p) == mutex' = 0

\* Map(root) in a process started on a root that may hold a file already
InitEmerge ==
  /\ kind = "map"
  /\ data = Empty
  /\ cache = <<>>
  /\ files \in {Empty} \cup {[x \in {PathOf(Ka)} |-> v] : v \in Values}
  /\ dirs = {Root}
  /\ op = NoOp
  /\ prev = NoPrev
  /\ touched = <<>>
  /\ evicted = {}
  /\ watch = <<>>
  /\ held = <<>>
  /\ durable = <<>>
  /\ mutex = 0
  /\ pc = [p \in Callers |-> "idle"]
  /\ call = [p \in Callers |-> NoCall]
  /\ loc = [p \in Callers |-> NoLoc]
  /\ snap = [p \in Callers |-> NoSnap]

Goto(p, l) == pc' = [pc EXCEPT ![p] = l]
SetLoc(p, buf, err) == loc' = [loc EXCEPT ![p] = [buf |-> buf, err |-> err]]

\* the caller enters Emerge.Get, Emerge.Set or Emerge.Del
Invoke(p) ==
  /\ pc[p] = "idle"
  /\ \E c \in Calls : call' = [call EXCEPT ![p] = c]
  /\ Goto(p, "lock")
  /\ UNCHANGED <<kind, data, cache, files, dirs, op, prev, touched, evicted, watch, held, durable, mutex, loc, snap>>

\* e.m.Lock(), then into the driver (GetDecode and SetEncode come here
\* through e.Get and e.Set)
Lock(p) ==
  /\ pc[p] = "lock"
  /\ MutexLock(p)
  /\ snap' = [snap EXCEPT ![p] = State]
  /\ Goto(p, CASE call[p].name \in {"Get", "GetDecode"} -> "get1"
               [] call[p].name \in {"Set", "SetEncode"} -> "set1"
               [] call[p].name = "Del" -> "del1")
  /\ UNCHANGED <<kind, data, cache, files, dirs, op, prev, touched, evicted, watch, held, durable, call, loc>>

\* MapDriver.Get: buf, err = d.lru.Get(k)
MapGet1(p) ==
  /\ pc[p] = "get1"
  /\ \E r \in LruGet(State, call[p].k) :
       /\ Install(r.st)
       /\ IF r.err = "nil"
          THEN SetLoc(p, r.val, "nil") /\ Goto(p, "unlock")
          ELSE SetLoc(p, <<>>, r.err) /\ Goto(p, "get2")
  /\ UNCHANGED <<kind, op, prev, touched, evicted, watch, held, durable, mutex, call, snap>>

\* MapDriver.Get: buf, err = d.doc.Get(k)
MapGet2(p) ==
  /\ pc[p] = "get2"
  /\ \E r \in DocGet(State, call[p].k) :
       /\ Install(r.st)
       /\ IF r.err # "nil"
          THEN SetLoc(p, <<>>, r.err) /\ Goto(p, "unlock")
          ELSE SetLoc(p, r.val, "nil") /\ Goto(p, "get3")
  /\ UNCHANGED <<kind, op, prev, touched, evicted, watch, held, durable, mutex, call, snap>>

\* MapDriver.Get: err = d.lru.Set(k, buf); return buf, err
MapGet3(p) ==
  /\ pc[p] = "get3"
  /\ \E r \in LruSet(State, call[p].k, loc[p].buf) :
       /\ Install(r.st)
       /\ SetLoc(p, loc[p].buf, r.err)
  /\ Goto(p, "unlock")
  /\ UNCHANGED <<kind, op, prev, touched, evicted, watch, held, durable, mutex, call, snap>>

\* MapDriver.Set: d.lru.Set(k, v)
MapSet1(p) ==
  /\ pc[p] = "set1"
  /\ \E r \in LruSet(State, call[p].k, call[p].v) :
       /\ Install(r.st)
       /\ SetLoc(p, <<>>, r.err)
       /\ Goto(p, IF r.err # "nil" THEN "unlock" ELSE "set2")
  /\ UNCHANGED <<kind, op, prev, touched, evicted, watch, held, durable, mutex, call, snap>>

\* MapDriver.Set: d.doc.Set(k, v)
MapSet2(p) ==
  /\ pc[p] = "set2"
  /\ \E r \in DocSet(State, call[p].k, call[p].v) :
       /\ Install(r.st)
       /\ SetLoc(p, <<>>, r.err)
  /\ Goto(p, "unlock")
  /\ UNCHANGED <<kind, op, prev, touched, evicted, watch, held, durable, mutex, call, snap>>

\* MapDriver.Del: d.lru.Del(k)
MapDel1(p) ==
  /\ pc[p] = "del1"
  /\ \E r \in LruDel(State, call[p].k) :
       /\ Install(r.st)
       /\ SetLoc(p, <<>>, r.err)
       /\ Goto(p, IF r.err # "nil" THEN "unlock" ELSE "del2")
  /\ UNCHANGED <<kind, op, prev, touched, evicted, watch, held, durable, mutex, call, snap>>

\* MapDriver.Del: d.doc.Del(k)
MapDel2(p) ==
  /\ pc[p] = "del2"
  /\ \E r \in DocDel(State, call[p].k) :
       /\ Install(r.st)
       /\ SetLoc(p, <<>>, r.err)
  /\ Goto(p, "unlock")
  /\ UNCHANGED <<kind, op, prev, touched, evicted, watch, held, durable, mutex, call, snap>>

\* the deferred e.m.Unlock() and the return to the caller, which is
\* GetDecode when the call came from there
Unlock(p) ==
  /\ pc[p] = "unlock"
  /\ MutexUnlock(p)
  /\ snap' = [snap EXCEPT ![p] = NoSnap]
  /\ Goto(p, IF call[p].name = "GetDecode" THEN "decode" ELSE "done")
  /\ UNCHANGED <<kind, data, cache, files, dirs, op, prev, touched, evicted, watch, held, durable, call, loc>>

NextEmerge ==
  \E p \in Callers :
    \/ Invoke(p)
    \/ Lock(p)
    \/ MapGet1(p)
    \/ MapGet2(p)
    \/ MapGet3(p)
    \/ MapSet1(p)
    \/ MapSet2(p)
    \/ MapDel1(p)
    \/ MapDel2(p)
    \/ Unlock(p)

SpecEmerge == InitEmerge /\ [][NextEmerge]_vars

(* ------------------ properties of the guard (SpecEmerge) -------------- *)

InDriver(p) == pc[p] \in {"get1", "get2", "get3", "set1", "set2", "del1", "del2"}

\* callers p and q have both returned from Set on key k, nobody else has called
TwoSetsDone(p, q, k) ==
  /\ p # q
  /\ pc[p] = "done" /\ pc[q] = "done"
  /\ call[p].name = "Set" /\ call[q].name = "Set"
  /\ call[p].k = k /\ call[q].k = k
  /\ \A r \in Callers \ {p, q} : pc[r] = "idle"

\* both tiers hold for k the value of one of the two calls
TiersAgree(p, q, k) ==
  /\ PathOf(k) \in DOMAIN files
  /\ files[PathOf(k)] \in {call[p].v, call[q].v}
  /\ k \in Resident(cache) => ValueOf(cache, k) = files[PathOf(k)]

\* C6 as stated: two concurrent Set(k, v1) and Set(k, v2) end, under every
\* interleaving, with the cache entry for k and the backend object for k
\* holding the same value, v1 or v2.
ConcurrentSetsAlwaysAgree ==
  \A p, q \in Callers : \A k \in EKeys : TwoSetsDone(p, q, k) => TiersAgree(p, q, k)

\* C6 amended: two concurrent Set(k, v1) and Set(k, v2) that both return nil
\* end, under every interleaving, with the cache entry for k and the backend
\* object for k holding the same value, v1 or v2.
ConcurrentSetsAgree ==
  \A p, q \in Callers : \A k \in EKeys :
    (TwoSetsDone(p, q, k) /\ loc[p].err = "nil" /\ loc[q].err = "nil")
      => TiersAgree(p, q, k)

ConcurrentSetsWitness ==
  \E p, q \in Callers : \E k \in EKeys :
    /\ TwoSetsDone(p, q, k)
    /\ loc[p].err = "nil" /\ loc[q].err = "nil"
    /\ call[p].v # call[q].v
    /\ k \in Resident(cache)

\* the driver operation a call stands for
DriverCall(st, c) ==
  CASE c.name = "Get" -> MapGet(st, c.k)
    [] c.name = "Set" -> MapSet(st, c.k, c.v)
    [] c.name = "Del" -> MapDel(st, c.k)

\* C7: every guarded call takes effect as one step of the sequential driver
\* at the moment it holds the lock: when it is about to return, its result
\* and the state of both tiers are an outcome of the whole driver operation
\* applied to the state found when the lock was taken, so that the calls are
\* equivalent to their execution one after the other in lock order.
Linearizable ==
  \A p \in Callers :
    pc[p] = "unlock" =>
      \E r \in DriverCall(snap[p], call[p]) :
        /\ r.st = State
        /\ r.err = loc[p].err
        /\ r.val = loc[p].buf

LinearizableWitness ==
  \E p, q \in Callers :
    /\ p # q
    /\ pc[p] = "unlock" /\ pc[q] = "done"
    /\ call[p].name = "Get" /\ call[q].name = "Set" /\ call[q].k = call[p].k
    /\ loc[q].err = "nil" /\ loc[p].err = "nil"
    /\ call[q].v # <<>> /\ loc[p].buf = call[q].v

\* C8: at most one caller is inside the wrapped driver, and nothing changes
\* the cache or the backend between the steps of a read miss (cache Get,
\* backend Get, cache Set) except the caller that performs it.
MutualExclusion ==
  /\ \A p, q \in Callers : (InDriver(p) /\ InDriver(q)) => p = q
  /\ \A p \in Callers : (InDriver(p) \/ pc[p] = "unlock") => mutex = p
  /\ \A p \in Callers :
       pc[p] \in {"get2", "get3"} =>
         /\ cache = snap[p].cache
         /\ files = snap[p].files
         /\ dirs = snap[p].dirs

MutualExclusionWitness ==
  \E p, q \in Callers :
    /\ p # q
    /\ pc[p] = "get3"
    /\ pc[q] = "lock"

\* no Set that returned has failed at the backend write
NoWriteFailed ==
  \A p \in Callers : (call[p].name = "Set" /\ pc[p] = "done") => loc[p].err = "nil"

\* C16 as stated: between the calls on the guarded Layered Store, as long as
\* no backend write has failed, every key resident in the cache has a backend
\* object that holds the identical value.
CacheCoherence ==
  (mutex = 0 /\ NoWriteFailed)
    => \A i \in 1..Len(cache) :
         /\ PathOf(cache[i].k) \in DOMAIN files
         /\ files[PathOf(cache[i].k)] = cache[i].v

(* --------------- Emerge.GetDecode and Emerge.SetEncode ---------------- *)
\* The values handed to SetEncode are an int, which json.Marshal writes as
\* its decimal digits, and a channel, which it refuses; GetDecode decodes
\* into a *int.

Objects == {[type |-> "int", n |-> 7], [type |-> "chan", n |-> 0]}
NoObject == [type |-> "nil", n |-> 0]

RECURSIVE Digits(_)
\* the decimal digits of n, in ASCII
Digits(n) == IF n < 10 THEN <<48 + n>> ELSE Digits(n \div 10) \o <<48 + (n % 10)>>

RECURSIVE Number(_)
\* the number a sequence of ASCII digits stands for
Number(b) ==
  IF b = <<>> THEN 0
  ELSE 10 * Number(SubSeq(b, 1, Len(b) - 1)) + (b[Len(b)] - 48)

\* json.Marshal(v)
Marshal(o) ==
  IF o.type = "int" THEN [err |-> "nil", b |-> Digits(o.n)]
  ELSE [err |-> "UnsupportedTypeError", b |-> <<>>]

\* json.Unmarshal(b, v) for v a *int
Unmarshal(b) ==
  IF /\ b # <<>>
     /\ \A i \in 1..Len(b) : b[i] \in 48..57
     /\ Len(b) = 1 \/ b[1] # 48
  THEN [err |-> "nil", o |-> [type |-> "int", n |-> Number(b)]]
  ELSE [err |-> "SyntaxError", o |-> NoObject]

\* the keys the callers of the five operations use
GKeys == {Ka}

GuardCalls ==
  {[name |-> "Get", k |-> k, v |-> <<>>, obj |-> NoObject] : k \in GKeys}
  \cup {[name |-> "Set", k |-> k, v |-> v, obj |-> NoObject] : k \in GKeys, v \in Values}
  \cup {[name |-> "Del", k |-> k, v |-> <<>>, obj |-> NoObject] : k \in GKeys}
  \cup {[name |-> "GetDecode", k |-> k, v |-> <<>>, obj |-> NoObject] : k \in GKeys}
  \cup {[name |-> "SetEncode", k |-> k, v |-> <<>>, obj |-> o] : k \in GKeys, o \in Objects}

\* GetDecode and SetEncode that take the lock themselves before they call
\* e.Get and e.Set
InvokeGuardLocking(p) ==
  /\ pc[p] = "idle"
  /\ \E c \in GuardCalls :
       /\ call' = [call EXCEPT ![p] = c]
       /\ Goto(p, IF c.name = "SetEncode" THEN "encode" ELSE "lock")
       /\ IF c.name \in {"GetDecode", "SetEncode"} THEN MutexLock(p) ELSE UNCHANGED mutex
  /\ UNCHANGED <<kind, data, cache, files, dirs, op, prev, touched, evicted, watch, held, durable, loc, snap>>

\* the caller enters one of the five operations of Emerge
InvokeGuard(p) ==
  /\ pc[p] = "idle"
  /\ \E c \in GuardCalls :
       /\ call' = [call EXCEPT ![p] = c]
       /\ Goto(p, IF c.name = "SetEncode" THEN "encode" ELSE "lock")
  /\ UNCHANGED <<kind, data, cache, files, dirs, op, prev, touched, evicted, watch, held, durable, mutex, loc, snap>>

\* SetEncode: b, err := json.Marshal(v); return err, or go on to e.Set(k, b)
Encode(p) ==
  /\ pc[p] = "encode"
  /\ LET r == Marshal(call[p].obj)
     IN IF r.err # "nil"
        THEN SetLoc(p, <<>>, r.err) /\ Goto(p, "done") /\ UNCHANGED call
        ELSE /\ SetLoc(p, r.b, "nil")
             /\ call' = [call EXCEPT ![p].v = r.b]
             /\ Goto(p, "lock")
  /\ UNCHANGED <<kind, data, cache, files, dirs, op, prev, touched, evicted, watch, held, durable, mutex, snap>>

\* GetDecode that decodes whatever e.Get returned, error or not
DecodeIgnoringError(p) ==
  /\ pc[p] = "decode"
  /\ LET r == Unmarshal(loc[p].buf)
     IN /\ SetLoc(p, loc[p].buf, r.err)
        /\ call' = IF r.err = "nil" THEN [call EXCEPT ![p].obj = r.o] ELSE call
  /\ Goto(p, "done")
  /\ UNCHANGED <<kind, data, cache, files, dirs, op, prev, touched, evicted, watch, held, durable, mutex, snap>>

\* GetDecode after e.Get returned: return err, or json.Unmarshal(b, v)
Decode(p) ==
  /\ pc[p] = "decode"
  /\ IF loc[p].err # "nil"
     THEN UNCHANGED <<loc, call>>
     ELSE LET r == Unmarshal(loc[p].buf)
          IN /\ SetLoc(p, loc[p].buf, r.err)
             /\ call' = IF r.err = "nil" THEN [call EXCEPT ![p].obj = r.o] ELSE call
  /\ Goto(p, "done")
  /\ UNCHANGED <<kind, data, cache, files, dirs, op, prev, touched, evicted, watch, held, durable, mutex, snap>>

NextGuard ==
  \E p \in Callers :
    \/ InvokeGuard(p)
    \/ Encode(p)
    \/ Lock(p)
    \/ MapGet1(p)
    \/ MapGet2(p)
    \/ MapGet3(p)
    \/ MapSet1(p)
    \/ MapSet2(p)
    \/ MapDel1(p)
    \/ MapDel2(p)
    \/ Unlock(p)
    \/ Decode(p)

\* Map(root) in a process started on a root that holds the encoding of 7
\* under the key
InitGuard ==
  /\ kind = "map"
  /\ data = Empty
  /\ cache = <<>>
  /\ files = [x \in {PathOf(k) : k \in GKeys} |-> Marshal([type |-> "int", n |-> 7]).b]
  /\ dirs = {Root}
  /\ op = NoOp
  /\ prev = NoPrev
  /\ touched = <<>>
  /\ evicted = {}
  /\ watch = <<>>
  /\ held = <<>>
  /\ durable = <<>>
  /\ mutex = 0
  /\ pc = [p \in Callers |-> "idle"]
  /\ call = [p \in Callers |-> NoCall]
  /\ loc = [p \in Callers |-> NoLoc]
  /\ snap = [p \in Callers |-> NoSnap]

SpecGuard == InitGuard /\ [][NextGuard]_vars

\* the next step of a caller that is inside an operation
Proceed(p) ==
  \/ Encode(p)
  \/ Lock(p)
  \/ MapGet1(p)
  \/ MapGet2(p)
  \/ MapGet3(p)
  \/ MapSet1(p)
  \/ MapSet2(p)
  \/ MapDel1(p)
  \/ MapDel2(p)
  \/ Unlock(p)
  \/ Decode(p)

\* The goroutine of a caller inside an operation is scheduled as long as it
\* can run; the inner driver calls return.
FairGuard == SpecGuard /\ \A p \in Callers : WF_vars(Proceed(p))

(* ------------ properties of the five operations (SpecGuard) ----------- *)

\* the caller is at a step of its operation other than waiting for the lock
Working(p) == InDriver(p) \/ pc[p] \in {"encode", "unlock", "decode"}

\* C14 as stated: every operation of the guard, GetDecode and SetEncode
\* included, holds the lock at every step from its start to its return, and
\* does not hold it once it has returned.
LockHeldThroughout ==
  \A p \in Callers :
    /\ Working(p) => mutex = p
    /\ pc[p] = "done" => mutex # p

\* C14 amended: Get, Set and Del hold the lock from the start of the driver
\* call to their return; GetDecode and SetEncode hold it for their inner Get
\* and Set only, the encoding runs before the lock is taken and the decoding
\* after it is released; a caller that has not taken the lock yet or whose
\* operation has returned, with or without an error, does not hold it.
LockHeldInDriver ==
  \A p \in Callers :
    /\ (InDriver(p) \/ pc[p] = "unlock") => mutex = p
    /\ pc[p] \in {"idle", "encode", "lock", "decode", "done"} => mutex # p

LockHeldWitness ==
  \E p, q \in Callers :
    /\ pc[p] = "done" /\ call[p].name = "GetDecode" /\ loc[p].err = "SyntaxError"
    /\ pc[q] = "done" /\ call[q].name = "Set" /\ loc[q].err = "EACCES"
    /\ mutex = 0

\* SetEncode whose encoding failed returns the encoder's error; the step
\* takes no lock and changes neither tier
EncodeFailure(p) ==
  (pc[p] = "encode" /\ pc'[p] = "done")
    => /\ Marshal(call[p].obj).err # "nil"
       /\ loc'[p].err = Marshal(call[p].obj).err
       /\ mutex # p /\ mutex' = mutex
       /\ State' = State

\* SetEncode whose encoding succeeded is, when it is about to return, an
\* outcome of MapDriver.Set(k, encoded bytes) on the state found at the lock,
\* and returns that outcome's error
EncodeThenSet(p) ==
  (pc[p] = "unlock" /\ call[p].name = "SetEncode")
    => /\ Marshal(call[p].obj).err = "nil"
       /\ \E r \in MapSet(snap[p], call[p].k, Marshal(call[p].obj).b) :
            r.st = State /\ r.err = loc[p].err
       /\ loc'[p] = loc[p]

\* GetDecode hands the result of the guarded Get to the decoder: an error of
\* Get is returned as it is and nothing is decoded, otherwise the call
\* returns what json.Unmarshal returns and the target holds the decoded value
GetThenDecode(p) ==
  /\ (pc[p] = "unlock" /\ call[p].name = "GetDecode")
       => /\ \E r \in MapGet(snap[p], call[p].k) :
               r.st = State /\ r.err = loc[p].err /\ r.val = loc[p].buf
          /\ loc'[p] = loc[p]
  /\ (pc[p] = "decode" /\ pc'[p] = "done")
       => /\ State' = State
          /\ IF loc[p].err # "nil"
             THEN loc'[p].err = loc[p].err /\ call'[p].obj = call[p].obj
             ELSE /\ loc'[p].err = Unmarshal(loc[p].buf).err
                  /\ call'[p].obj = IF Unmarshal(loc[p].buf).err = "nil"
                                    THEN Unmarshal(loc[p].buf).o
                                    ELSE call[p].obj

\* C18: SetEncode whose encoding fails returns the encoder's error without
\* taking the lock and leaves both tiers unchanged; SetEncode whose encoding
\* succeeds has the effect and the result of Set(k, encoded bytes); GetDecode
\* returns the error of the guarded Get unchanged, without decoding, when
\* Get fails, and the decoder's result otherwise.
DerivedOperations ==
  [][\A p \in Callers : EncodeFailure(p) /\ EncodeThenSet(p) /\ GetThenDecode(p)]_vars

DerivedOperationsWitness ==
  \E p, q, r \in Callers :
    /\ pc[p] = "done" /\ call[p].name = "SetEncode" /\ loc[p].err = "nil"
    /\ pc[q] = "done" /\ call[q].name = "GetDecode" /\ loc[q].err = "nil"
    /\ call[q].obj = call[p].obj
    /\ call[q].obj \in Objects
    /\ r \notin {p, q} => pc[r] = "idle"

InProgress(p) == pc[p] \notin {"idle", "done"}

\* C19: a caller never takes the lock while it holds it, GetDecode and
\* SetEncode included; no state in which a caller is inside an operation is
\* a deadlock; a caller gets past e.m.Lock() only by taking the free lock;
\* and with fair scheduling every caller inside an operation returns with
\* the lock released.
GuardCompletes ==
  /\ [](\A p \in Callers : pc[p] = "lock" => mutex # p)
  /\ []((\E p \in Callers : InProgress(p)) => ENABLED (\E p \in Callers : Proceed(p)))
  /\ [][\A p \in Callers :
          (pc[p] = "lock" /\ pc'[p] # "lock") => (mutex = 0 /\ mutex' = p)]_vars
  /\ \A p \in Callers : InProgress(p) ~> (pc[p] = "done" /\ mutex # p)

GuardCompletesWitness ==
  /\ \A p \in Callers : pc[p] = "done"
  /\ mutex = 0
  /\ \E p, q \in Callers :
       /\ call[p].name = "GetDecode" /\ loc[p].err = "nil"
       /\ call[q].name = "SetEncode" /\ loc[q].err = "nil"

====
